---- MODULE Spec2Model ----
(***************************************************************************)
(* Model of oxylab_scraper.py: the extraction routine search_results and   *)
(* the paginated run loop run_scraper, together with main's sink set-up    *)
(* and the SIGINT handler handle_interrupt.                                *)
(*                                                                         *)
(* Text is modelled as sequences of one-character strings, so that         *)
(* re.findall, rstrip, lower, the substring tests and the "value,url"      *)
(* formatting are computed character by character.                         *)
(***************************************************************************)
EXTENDS Integers, Sequences, FiniteSets, TLC

(***************************************************************************)
(* Bounds of the model.                                                    *)
(***************************************************************************)
MaxRuns == 2
MaxPagesPerCall == 3
MaxStart == 9
MaxPages == 2
MaxResults == 1

(***************************************************************************)
(* Characters and character classes of Python's re module (ASCII part).    *)
(***************************************************************************)
UPPER == <<"A","B","C","D","E","F","G","H","I","J","K","L","M",
           "N","O","P","Q","R","S","T","U","V","W","X","Y","Z">>
LOWER == <<"a","b","c","d","e","f","g","h","i","j","k","l","m",
           "n","o","p","q","r","s","t","u","v","w","x","y","z">>
DIGITS == <<"0","1","2","3","4","5","6","7","8","9">>

Range(s) == {s[i] : i \in DOMAIN s}

\* \d
Digit == Range(DIGITS)
\* \w
Word == Range(UPPER) \cup Range(LOWER) \cup Digit \cup {"_"}
\* \s
Space == {" ", "\t", "\n", "\r", "\f"}

\* str.lower() on one character
LowerChar(c) ==
    IF c \in Range(UPPER) THEN LOWER[CHOOSE i \in DOMAIN UPPER : UPPER[i] = c] ELSE c

\* str.lower()
lower(s) == [i \in DOMAIN s |-> LowerChar(s[i])]

\* needle in haystack (substring test of Python's "in" on str)
Contains(haystack, needle) ==
    \E i \in 0..(Len(haystack) - Len(needle)) :
        \A j \in 1..Len(needle) : haystack[i + j] = needle[j]

\* str.rstrip(".") as the source calls it
RECURSIVE rstrip_dot(_)
rstrip_dot(s) ==
    IF Len(s) > 0 /\ s[Len(s)] = "." THEN rstrip_dot(SubSeq(s, 1, Len(s) - 1)) ELSE s

\* str(n) for a non-negative integer
RECURSIVE str_int(_)
str_int(n) ==
    IF n < 10 THEN <<DIGITS[n + 1]>> ELSE Append(str_int(n \div 10), DIGITS[(n % 10) + 1])

\* str({}), the text of the default that dict.get returns for a missing key
STR_EMPTY_DICT == <<"{", "}">>

(***************************************************************************)
(* The two regular expressions of run_scraper and re.findall.              *)
(***************************************************************************)
EMAIL_PATTERN == "email"
PHONE_PATTERN == "phone"

\* [\w.+-]   [\w-]   [\w.-]   [\s.-]
EmailLocalClass == Word \cup {".", "+", "-"}
EmailDomainClass == Word \cup {"-"}
EmailTailClass == Word \cup {".", "-"}
PhoneSepClass == Space \cup {".", "-"}

At(s, i) == IF i \in DOMAIN s THEN s[i] ELSE ""
IsWord(s, i) == i \in DOMAIN s /\ s[i] \in Word
IsDigit(s, i) == i \in DOMAIN s /\ s[i] \in Digit
AllDigits(s, i, n) == \A k \in 0..(n - 1) : IsDigit(s, i + k)

\* \b before position i
WordBoundary(s, i) == IsWord(s, i - 1) # IsWord(s, i)

\* greedy cls+ from position i: the position after the longest run
RECURSIVE RunEnd(_, _, _)
RunEnd(s, i, cls) ==
    IF i \in DOMAIN s /\ s[i] \in cls THEN RunEnd(s, i + 1, cls) ELSE i

\* [\w.+-]+@[\w-]+\.[\w.-]+ anchored at i: position after the match, 0 if none
EmailMatchAt(s, i) ==
    LET a == RunEnd(s, i, EmailLocalClass)
        d == RunEnd(s, a + 1, EmailDomainClass)
        t == RunEnd(s, d + 1, EmailTailClass)
    IN  IF a > i /\ At(s, a) = "@" /\ d > a + 1 /\ At(s, d) = "." /\ t > d + 1
        THEN t ELSE 0

\* (?:\(\d{3}\)|\d{3})[\s.-]?\d{3}[\s.-]?\d{4}\b anchored at i
PhoneBodyAt(s, i) ==
    LET a == IF At(s, i) = "(" /\ AllDigits(s, i + 1, 3) /\ At(s, i + 4) = ")"
             THEN i + 5
             ELSE IF AllDigits(s, i, 3) THEN i + 3 ELSE 0
        p == IF At(s, a) \in PhoneSepClass THEN a + 1 ELSE a
        q == IF At(s, p + 3) \in PhoneSepClass THEN p + 4 ELSE p + 3
    IN  IF a > 0 /\ AllDigits(s, p, 3) /\ AllDigits(s, q, 4) /\ WordBoundary(s, q + 4)
        THEN q + 4 ELSE 0

\* (?:\+\d{1,2}\s?)? followed by the body: two digits are tried before one
PhonePrefixAt(s, i) ==
    LET two == IF AllDigits(s, i + 1, 2)
               THEN PhoneBodyAt(s, IF At(s, i + 3) \in Space THEN i + 4 ELSE i + 3)
               ELSE 0
        one == IF IsDigit(s, i + 1)
               THEN PhoneBodyAt(s, IF At(s, i + 2) \in Space THEN i + 3 ELSE i + 2)
               ELSE 0
    IN  IF two > 0 THEN two ELSE one

\* the whole phone expression anchored at i
PhoneMatchAt(s, i) ==
    IF ~WordBoundary(s, i) THEN 0
    ELSE IF At(s, i) = "+" THEN PhonePrefixAt(s, i) ELSE PhoneBodyAt(s, i)

MatchAt(pattern, s, i) ==
    IF pattern = EMAIL_PATTERN THEN EmailMatchAt(s, i) ELSE PhoneMatchAt(s, i)

\* re.findall(pattern, s): the non-overlapping matches, left to right
RECURSIVE FindAllFrom(_, _, _)
FindAllFrom(pattern, s, i) ==
    IF i > Len(s) THEN <<>>
    ELSE LET e == MatchAt(pattern, s, i)
         IN  IF e > 0
             THEN <<SubSeq(s, i, e - 1)>> \o FindAllFrom(pattern, s, e)
             ELSE FindAllFrom(pattern, s, i + 1)

findall(pattern, s) == FindAllFrom(pattern, s, 1)

(***************************************************************************)
(* JSON of the API response.  A dict key that may be missing is a sequence *)
(* of length 0 (missing) or 1 (present).                                   *)
(***************************************************************************)
Missing == <<>>
Present(v) == <<v>>
Option(S) == {Missing} \cup {Present(v) : v \in S}
SeqsUpTo(S, n) == UNION {[1..k -> S] : k \in 0..n}

\* dict.get(key, default)
Get(field, default) == IF field = Missing THEN default ELSE field[1]

\* the {} defaults of the .get chain, level by level
EMPTY_CONTENT == [results |-> Missing]
EMPTY_RESULTS == [organic |-> Missing]
EMPTY_ORGANIC == <<>>

\* page.get("content", {}).get("results", {}).get("organic", {})
OrganicOf(page) ==
    Get(Get(Get(page.content, EMPTY_CONTENT).results, EMPTY_RESULTS).organic, EMPTY_ORGANIC)

\* str(results.get("desc", {})) and str(results.get("url", {}))
DescText(result) == Get(result.desc, STR_EMPTY_DICT)
UrlText(result) == Get(result.url, STR_EMPTY_DICT)

POSTMASTER == <<"p","o","s","t","m","a","s","t","e","r">>
WEBMASTER == <<"w","e","b","m","a","s","t","e","r">>

\* a variant that keeps the trailing periods
Normalize_keeps_periods(match) == match

\* match = match.rstrip(".")
Normalize(match) == rstrip_dot(match)

\* "postmaster" in match.lower() or "webmaster" in match.lower()
Excluded(match) ==
    Contains(lower(match), POSTMASTER) \/ Contains(lower(match), WEBMASTER)

\* a variant that keys the set on the value alone
Entry_value_only(match, url) == match

\* f"{str(match)}," + str(results.get("url", {}))
Entry(match, url) == match \o <<",">> \o url

\* print(f"match found: {str(match)}, URL: " + str(results.get("url", {}))):
\* one progress event, kept as the two texts the line interpolates
ProgressEvent(match, url) == [match |-> match, url |-> url]

\* the membership test of the source: the bare match against the set of entries
AlreadySeen(match, unique_matches) == match \in unique_matches

\* body of "for match in matches", from position i of matches
RECURSIVE ScanMatches(_, _, _, _)
ScanMatches(matches, i, url, acc) ==
    IF i > Len(matches) THEN acc
    ELSE LET match == Normalize(matches[i])
         IN  IF ~Excluded(match) /\ ~AlreadySeen(match, acc.unique_matches)
             THEN ScanMatches(matches, i + 1, url,
                      [unique_matches |-> acc.unique_matches \cup {Entry(match, url)},
                       printed |-> Append(acc.printed, ProgressEvent(match, url))])
             ELSE ScanMatches(matches, i + 1, url, acc)

\* body of "for results in ...organic", from position i of organic
RECURSIVE ScanOrganic(_, _, _, _)
ScanOrganic(pattern, organic, i, acc) ==
    IF i > Len(organic) THEN acc
    ELSE ScanOrganic(pattern, organic, i + 1,
             ScanMatches(findall(pattern, DescText(organic[i])), 1,
                         UrlText(organic[i]), acc))

\* body of "for page in response.json()["results"]", from position i
RECURSIVE ScanPages(_, _, _, _)
ScanPages(pattern, pages, i, acc) ==
    IF i > Len(pages) THEN acc
    ELSE ScanPages(pattern, pages, i + 1,
             ScanOrganic(pattern, OrganicOf(pages[i]), 1, acc))

\* search_results(pattern, response): response.json()["results"] raises
\* KeyError when the key is missing; otherwise the set is returned after the
\* progress lines have been printed
search_results(pattern, response) ==
    IF response.results = Missing
    THEN [raised |-> TRUE, unique_matches |-> {}, printed |-> <<>>]
    ELSE LET acc == ScanPages(pattern, response.results[1], 1,
                        [unique_matches |-> {}, printed |-> <<>>])
         IN  [raised |-> FALSE, unique_matches |-> acc.unique_matches,
              printed |-> acc.printed]

(***************************************************************************)
(* Text of the snippets and URLs the modelled API returns.                 *)
(***************************************************************************)
URL_EXAMPLE == <<"h","t","t","p",":","/","/","e","x","a","m","p","l","e",".","c","o","m">>
URL_OTHER == <<"h","t","t","p",":","/","/","b",".","o","r","g">>
DESC_EMAIL == <<"E","m","a","i","l"," ","t","e","s","t","@","e","x","a","m","p","l","e",".","c","o","m">>
DESC_PERIOD == <<"A","s","k"," ","j","o","h","n","@","e","x","a","m","p","l","e",".","c","o","m",".">>
DESC_POSTMASTER == <<"p","o","s","t","m","a","s","t","e","r","@","e","x","a","m","p","l","e",".","c","o","m">>
DESC_WEBMASTER == <<"W","e","b","M","a","s","t","e","r","@","b",".","c","o","m">>
DESC_PHONE == <<"C","a","l","l"," ","u","s"," ","a","t"," ","1","2","3","-","4","5","6","-","7","8","9","0">>
DESC_BOTH == <<"a","@","b",".","c","o","m"," ","5","5","5","-","1","2","3","-","4","5","6","7">>
DESC_TWICE == <<"a","@","b",".","c","o","m"," ","o","r"," ","a","@","b",".","c","o","m">>

Descs == {DESC_EMAIL, DESC_PERIOD, DESC_POSTMASTER, DESC_WEBMASTER, DESC_PHONE,
          DESC_BOTH, DESC_TWICE}
\* the snippets of the direct calls of search_results
CallDescs == {DESC_EMAIL, DESC_PERIOD, DESC_PHONE, DESC_TWICE}

\* response shapes, every nesting level present or missing
OrganicResults(descs, urls) == [desc : Option(descs), url : Option(urls)]
PageShapes(descs, urls) ==
    [content : Option([results : Option([organic :
        Option(SeqsUpTo(OrganicResults(descs, urls), MaxResults))])])]
Responses(descs, urls) == [results : Option(SeqsUpTo(PageShapes(descs, urls), MaxPages))]

\* the JSON bodies the modelled API answers with in the run loop
Result(desc, url) == [desc |-> Present(desc), url |-> Present(url)]
Page(organic) ==
    [content |-> Present([results |-> Present([organic |-> Present(organic)])])]
Json(pages) == [results |-> Present(pages)]

JSON_EXAMPLE == Json(<<Page(<<Result(DESC_EMAIL, URL_EXAMPLE)>>)>>)
JSON_TWO_URLS == Json(<<Page(<<Result(DESC_EMAIL, URL_EXAMPLE)>>),
                        Page(<<Result(DESC_EMAIL, URL_OTHER)>>)>>)
JSON_ROLES == Json(<<Page(<<Result(DESC_PERIOD, URL_EXAMPLE)>>),
                     Page(<<Result(DESC_WEBMASTER, URL_EXAMPLE)>>)>>)
JSON_POSTMASTER == Json(<<Page(<<Result(DESC_POSTMASTER, URL_EXAMPLE)>>)>>)
JSON_BOTH == Json(<<Page(<<Result(DESC_BOTH, URL_EXAMPLE)>>)>>)
JSON_PHONE == Json(<<Page(<<Result(DESC_PHONE, URL_EXAMPLE)>>)>>)
JSON_PARTIAL == Json(<<[content |-> Missing],
                       Page(<<[desc |-> Present(DESC_TWICE), url |-> Missing]>>)>>)
JSON_NO_RESULTS == [results |-> Missing]

ApiResponses == {JSON_EXAMPLE, JSON_TWO_URLS, JSON_ROLES, JSON_POSTMASTER,
                 JSON_BOTH, JSON_PHONE, JSON_PARTIAL, JSON_NO_RESULTS}

(***************************************************************************)
(* State.                                                                  *)
(***************************************************************************)
VARIABLES
    pc,             \* position of the main thread
    args,           \* runs, pages, start, phones as main passes them to run_scraper
    run,            \* loop variable of run_scraper
    start,          \* run_scraper's start, advanced after every run
    emails,         \* run_scraper's emails set
    phone_numbers,  \* run_scraper's phone_numbers set
    response,       \* the requests.Response of the latest call, Missing before
    requests,       \* payloads posted to the API so far (start_page, pages)
    calls,          \* patterns passed to search_results in the latest run
    reported,       \* progress events printed by search_results so far
    totals,         \* the "found so far" counts printed at the end of each run
    output_file,    \* the global output_file: "none", "open" or "closed"
    file_lines,     \* the strings written to output_file, in order
    todo,           \* elements the current "for ... in set" has not yet visited
    exit_code,      \* exit status of the process, -1 while it runs
    call            \* a direct call of search_results: arguments and outcome

vars == <<pc, args, run, start, emails, phone_numbers, response, requests, calls,
          reported, totals, output_file, file_lines, todo, exit_code, call>>

loopVars == <<pc, args, run, start, emails, phone_numbers, response, requests,
              calls, reported, totals, output_file, file_lines, todo, exit_code>>

PHONES_CHOICES == {"no", "yes", "both"}
NO_CALL == [state |-> "none", pattern |-> EMAIL_PATTERN, response |-> JSON_NO_RESULTS,
            unique_matches |-> {}, printed |-> <<>>]

Terminal == {"done", "interrupted", "failed", "crashed"}

\* main() up to signal.signal(SIGINT, handle_interrupt) and the argument
\* defaults; run_scraper's locals are given their initial values
Init ==
    /\ pc = "main"
    /\ args \in [runs : 0..MaxRuns, pages : 1..MaxPagesPerCall,
                 start : {1, MaxStart}, phones : PHONES_CHOICES]
    /\ run = 1
    /\ start = args.start
    /\ emails = {}
    /\ phone_numbers = {}
    /\ response = Missing
    /\ requests = <<>>
    /\ calls = <<>>
    /\ reported = {}
    /\ totals = <<>>
    /\ output_file = "none"
    /\ file_lines = <<>>
    /\ todo = {}
    /\ exit_code = -1
    /\ call = NO_CALL

(***************************************************************************)
(* run_scraper and main.                                                   *)
(***************************************************************************)
NEWLINE == <<"\n">>
HEADER_EMAIL == <<"E","m","a","i","l",","," ","U","R","L">> \o NEWLINE
HEADER_PHONES == <<"P","h","o","n","e","s",","," ","U","R","L">> \o NEWLINE
HEADER_MATCH == <<"M","a","t","c","h",","," ","U","R","L">> \o NEWLINE

\* a variant that scans for emails in every mode
EmailEnabled_always(phones) == TRUE

\* if phones != "yes":
EmailEnabled(phones) == phones # "yes"
\* if phones in ["yes", "both"]:
PhoneEnabled(phones) == phones \in {"yes", "both"}

\* the search_results calls of one iteration, in order
PatternsFor(phones) ==
    (IF EmailEnabled(phones) THEN <<EMAIL_PATTERN>> ELSE <<>>)
        \o (IF PhoneEnabled(phones) THEN <<PHONE_PATTERN>> ELSE <<>>)

\* a variant that advances the cursor by one page
NextStart_by_one(st, pg) == st + 1

\* start = int(start) + pages
NextStart(st, pg) == st + pg

\* a variant that leaves the loop one run early
LoopFinished_early(r, n) == r >= n

\* range(1, runs + 1) is exhausted
LoopFinished(r, n) == r > n

\* a variant that confuses the headers of the two phone modes
Header_swapped(phones) ==
    IF phones = "no" THEN HEADER_EMAIL
    ELSE IF phones = "yes" THEN HEADER_MATCH ELSE HEADER_PHONES

\* header = ("Email, URL\n" if phones == "no" else ("Phones, URL\n" if ... ))
Header(phones) ==
    IF phones = "no" THEN HEADER_EMAIL
    ELSE IF phones = "yes" THEN HEADER_PHONES ELSE HEADER_MATCH

\* the payload fields that change from call to call
Payload(st, pg) == [start_page |-> str_int(st), pages |-> str_int(pg)]

Events(pattern, printed) ==
    {[pattern |-> pattern, match |-> printed[i].match, url |-> printed[i].url] :
        i \in DOMAIN printed}

\* main, lines 322-330: the output file is opened (or not asked for) and
\* run_scraper is entered
OpenOutput ==
    /\ pc = "main"
    /\ \E target \in {"none", "open"} : output_file' = target
    /\ pc' = "loop"
    /\ UNCHANGED <<args, run, start, emails, phone_numbers, response, requests,
                   calls, reported, totals, file_lines, todo, exit_code, call>>

\* main, line 325: open() raises OSError, which nothing catches
OpenOutputFails ==
    /\ pc = "main"
    /\ pc' = "crashed"
    /\ exit_code' = 1
    /\ UNCHANGED <<args, run, start, emails, phone_numbers, response, requests,
                   calls, reported, totals, output_file, file_lines, todo, call>>

\* loop head to requests.post: the payload is built from start and pages
IssueRequest ==
    /\ pc = "loop"
    /\ ~LoopFinished(run, args.runs)
    /\ requests' = Append(requests, Payload(start, args.pages))
    /\ pc' = "wait"
    /\ UNCHANGED <<args, run, start, emails, phone_numbers, response, calls,
                   reported, totals, output_file, file_lines, todo, exit_code, call>>

\* a variant that reports the bad response and goes on with the next run
BadResponse_continues ==
    /\ pc = "wait"
    /\ response' = Present([ok |-> FALSE, json |-> JSON_NO_RESULTS])
    /\ pc' = "loop"
    /\ run' = run + 1
    /\ start' = NextStart(start, args.pages)
    /\ UNCHANGED <<args, emails, phone_numbers, requests, calls, reported, totals,
                   output_file, file_lines, todo, exit_code, call>>

\* if not response.ok: ... sys.exit(1)
BadResponse ==
    /\ pc = "wait"
    /\ response' = Present([ok |-> FALSE, json |-> JSON_NO_RESULTS])
    /\ pc' = "failed"
    /\ exit_code' = 1
    /\ UNCHANGED <<args, run, start, emails, phone_numbers, requests, calls,
                   reported, totals, output_file, file_lines, todo, call>>

\* response.ok: both extraction branches, the per-run report and the cursor
ProcessResponse ==
    /\ pc = "wait"
    /\ \E json \in ApiResponses :
        LET found_emails == search_results(EMAIL_PATTERN, json)
            found_phones == search_results(PHONE_PATTERN, json)
            new_emails == IF EmailEnabled(args.phones)
                          THEN emails \cup found_emails.unique_matches ELSE emails
            new_phones == IF PhoneEnabled(args.phones)
                          THEN phone_numbers \cup found_phones.unique_matches
                          ELSE phone_numbers
        IN  /\ ~(EmailEnabled(args.phones) /\ found_emails.raised)
            /\ ~(PhoneEnabled(args.phones) /\ found_phones.raised)
            /\ response' = Present([ok |-> TRUE, json |-> json])
            /\ emails' = new_emails
            /\ phone_numbers' = new_phones
            /\ calls' = PatternsFor(args.phones)
            /\ reported' = reported
                 \cup (IF EmailEnabled(args.phones)
                       THEN Events(EMAIL_PATTERN, found_emails.printed) ELSE {})
                 \cup (IF PhoneEnabled(args.phones)
                       THEN Events(PHONE_PATTERN, found_phones.printed) ELSE {})
            /\ totals' = Append(totals, [emails |-> Cardinality(new_emails),
                                         phone_numbers |-> Cardinality(new_phones)])
    /\ start' = NextStart(start, args.pages)
    /\ run' = run + 1
    /\ pc' = "loop"
    /\ UNCHANGED <<args, requests, output_file, file_lines, todo, exit_code, call>>

\* response.ok, but the first search_results call raises KeyError, which
\* nothing catches: the interpreter prints the traceback and exits with 1
ProcessResponseRaises ==
    /\ pc = "wait"
    /\ \E json \in ApiResponses :
        /\ search_results(Head(PatternsFor(args.phones)), json).raised
        /\ response' = Present([ok |-> TRUE, json |-> json])
        /\ calls' = <<Head(PatternsFor(args.phones))>>
    /\ pc' = "crashed"
    /\ exit_code' = 1
    /\ UNCHANGED <<args, run, start, emails, phone_numbers, requests, reported,
                   totals, output_file, file_lines, todo, call>>

\* after the loop: the header is written when output_file is set, and the
\* first "for" over a set begins; without a file run_scraper and main return
FinishLoop ==
    /\ pc = "loop"
    /\ LoopFinished(run, args.runs)
    /\ IF output_file = "open"
       THEN /\ file_lines' = Append(file_lines, Header(args.phones))
            /\ IF args.phones = "yes"
               THEN pc' = "phones" /\ todo' = phone_numbers
               ELSE pc' = "emails" /\ todo' = emails
            /\ UNCHANGED exit_code
       ELSE /\ pc' = "done"
            /\ exit_code' = 0
            /\ UNCHANGED <<file_lines, todo>>
    /\ UNCHANGED <<args, run, start, emails, phone_numbers, response, requests,
                   calls, reported, totals, output_file, call>>

\* for email in emails: output_file.write(email + "\n")
WriteEmail ==
    /\ pc = "emails"
    /\ \E email \in todo :
        /\ file_lines' = Append(file_lines, email \o NEWLINE)
        /\ todo' = todo \ {email}
    /\ UNCHANGED <<pc, args, run, start, emails, phone_numbers, response, requests,
                   calls, reported, totals, output_file, exit_code, call>>

\* the emails loop is exhausted: the phones loop follows only for "both"
EndEmails ==
    /\ pc = "emails"
    /\ todo = {}
    /\ IF args.phones = "both"
       THEN pc' = "phones" /\ todo' = phone_numbers
       ELSE pc' = "close" /\ todo' = {}
    /\ UNCHANGED <<args, run, start, emails, phone_numbers, response, requests,
                   calls, reported, totals, output_file, file_lines, exit_code, call>>

\* for phone_number in phone_numbers: output_file.write(phone_number + "\n")
WritePhone ==
    /\ pc = "phones"
    /\ \E phone_number \in todo :
        /\ file_lines' = Append(file_lines, phone_number \o NEWLINE)
        /\ todo' = todo \ {phone_number}
    /\ UNCHANGED <<pc, args, run, start, emails, phone_numbers, response, requests,
                   calls, reported, totals, output_file, exit_code, call>>

EndPhones ==
    /\ pc = "phones"
    /\ todo = {}
    /\ pc' = "close"
    /\ UNCHANGED <<args, run, start, emails, phone_numbers, response, requests,
                   calls, reported, totals, output_file, file_lines, todo,
                   exit_code, call>>

\* if output_file and not output_file.closed: output_file.close(); main returns
CloseOutput ==
    /\ pc = "close"
    /\ output_file' = IF output_file = "open" THEN "closed" ELSE output_file
    /\ pc' = "done"
    /\ exit_code' = 0
    /\ UNCHANGED <<args, run, start, emails, phone_numbers, response, requests,
                   calls, reported, totals, file_lines, todo, call>>

\* a variant that exits without closing the file
handle_interrupt_leaves_open ==
    /\ pc \notin Terminal
    /\ pc' = "interrupted"
    /\ exit_code' = 0
    /\ UNCHANGED <<args, run, start, emails, phone_numbers, response, requests,
                   calls, reported, totals, output_file, file_lines, todo, call>>

\* SIGINT is delivered between two steps of the main thread
handle_interrupt ==
    /\ pc \notin Terminal
    /\ output_file' = IF output_file = "open" THEN "closed" ELSE output_file
    /\ pc' = "interrupted"
    /\ exit_code' = 0
    /\ UNCHANGED <<args, run, start, emails, phone_numbers, response, requests,
                   calls, reported, totals, file_lines, todo, call>>

Next ==
    \/ OpenOutput
    \/ OpenOutputFails
    \/ IssueRequest
    \/ BadResponse
    \/ ProcessResponse
    \/ ProcessResponseRaises
    \/ FinishLoop
    \/ WriteEmail
    \/ EndEmails
    \/ WritePhone
    \/ EndPhones
    \/ CloseOutput
    \/ handle_interrupt

Spec == Init /\ [][Next]_vars

(***************************************************************************)
(* search_results called on its own, on every response shape.              *)
(***************************************************************************)
InitExtract ==
    /\ pc = "main"
    /\ args = [runs |-> 0, pages |-> 1, start |-> 1, phones |-> "no"]
    /\ run = 1
    /\ start = args.start
    /\ emails = {}
    /\ phone_numbers = {}
    /\ response = Missing
    /\ requests = <<>>
    /\ calls = <<>>
    /\ reported = {}
    /\ totals = <<>>
    /\ output_file = "none"
    /\ file_lines = <<>>
    /\ todo = {}
    /\ exit_code = -1
    /\ call \in [state : {"called"}, pattern : {EMAIL_PATTERN, PHONE_PATTERN},
                 response : Responses(CallDescs, {URL_EXAMPLE}),
                 unique_matches : {{}}, printed : {<<>>}]

\* search_results returns its set
SearchReturns ==
    /\ call.state = "called"
    /\ LET out == search_results(call.pattern, call.response)
       IN  /\ ~out.raised
           /\ call' = [call EXCEPT !.state = "returned",
                                   !.unique_matches = out.unique_matches,
                                   !.printed = out.printed]
    /\ UNCHANGED loopVars

\* search_results raises KeyError
SearchRaises ==
    /\ call.state = "called"
    /\ search_results(call.pattern, call.response).raised
    /\ call' = [call EXCEPT !.state = "raised"]
    /\ UNCHANGED loopVars

NextExtract ==
    \/ SearchReturns
    \/ SearchRaises

SpecExtract == InitExtract /\ [][NextExtract]_vars

TypeOK ==
    /\ pc \in {"main", "loop", "wait", "emails", "phones", "close"} \cup Terminal
    /\ exit_code \in {-1, 0, 1}
    /\ (exit_code # -1) <=> (pc \in Terminal)
    /\ output_file \in {"none", "open", "closed"}

(***************************************************************************)
(* Properties.                                                             *)
(***************************************************************************)
\* int() of a decimal text
RECURSIVE int_of(_)
int_of(s) ==
    IF s = <<>> THEN 0
    ELSE 10 * int_of(SubSeq(s, 1, Len(s) - 1))
         + ((CHOOSE i \in DOMAIN DIGITS : DIGITS[i] = s[Len(s)]) - 1)

\* the value of an entry "value,url": the text before the first comma
ValueOf(entry) ==
    SubSeq(entry, 1, (CHOOSE i \in DOMAIN entry :
                         entry[i] = "," /\ \A j \in 1..(i - 1) : entry[j] # ",") - 1)

EMAIL_TEST == <<"t","e","s","t","@","e","x","a","m","p","l","e",".","c","o","m">>
EMAIL_JOHN == <<"j","o","h","n","@","e","x","a","m","p","l","e",".","c","o","m">>

Ok(json) == Present([ok |-> TRUE, json |-> json])
Failed == response # Missing /\ ~response[1].ok

\* C1: the k-th request carries start_page = startPage + (k-1) * pagesPerCall
\* and pages = pagesPerCall, so each request starts where the previous one
\* ended.
C1_CursorMirrorsRequests ==
    /\ Len(requests) <= args.runs
    /\ \A k \in DOMAIN requests :
        /\ requests[k].start_page = str_int(args.start + (k - 1) * args.pages)
        /\ requests[k].pages = str_int(args.pages)
    /\ \A k \in 1..(Len(requests) - 1) :
        int_of(requests[k + 1].start_page)
            = int_of(requests[k].start_page) + int_of(requests[k].pages)

C1_Witness ==
    /\ args.runs = 2 /\ args.pages = 3 /\ args.start = 1
    /\ Len(requests) = 2
    /\ requests[2] = [start_page |-> <<"4">>, pages |-> <<"3">>]

\* C2: once a response is a non-success status the process has exited with
\* code 1, the request of the failing run is the last one issued (none for
\* later runs, no retry), and nothing is in the sink if no run had succeeded.
C2_BadResponseIsFatal ==
    Failed =>
        /\ pc = "failed"
        /\ exit_code = 1
        /\ Len(requests) = run
        /\ Len(totals) = run - 1
        /\ (totals = <<>> => file_lines = <<>>)

C2_Witness ==
    /\ Failed
    /\ args.runs = 2
    /\ run = 1
    /\ output_file = "open"
    /\ exit_code = 1

\* C3: after normal completion with an output file, the file holds the header
\* of the mode first and then one line "value,url" per element of the sets of
\* the mode, the emails before the phone numbers.
C3_OutputIsHeaderThenMatches ==
    (pc = "done" /\ output_file = "closed") =>
        LET E == IF args.phones \in {"no", "both"} THEN emails ELSE {}
            P == IF args.phones \in {"yes", "both"} THEN phone_numbers ELSE {}
            ne == Cardinality(E)
            np == Cardinality(P)
        IN  /\ Len(file_lines) = 1 + ne + np
            /\ file_lines[1] = (CASE args.phones = "no" -> HEADER_EMAIL
                                  [] args.phones = "yes" -> HEADER_PHONES
                                  [] args.phones = "both" -> HEADER_MATCH)
            /\ {file_lines[i] : i \in 2..(1 + ne)} = {e \o NEWLINE : e \in E}
            /\ {file_lines[i] : i \in (2 + ne)..(1 + ne + np)} = {e \o NEWLINE : e \in P}

C3_Witness ==
    /\ pc = "done"
    /\ output_file = "closed"
    /\ args.phones = "no" /\ args.runs = 1
    /\ response = Ok(JSON_EXAMPLE)
    /\ file_lines = <<HEADER_EMAIL, EMAIL_TEST \o <<",">> \o URL_EXAMPLE \o NEWLINE>>
    /\ Cardinality(emails) = 1
    /\ phone_numbers = {}

\* C4: after SIGINT the process has exited with code 0, no output file is left
\* open, and no request is issued and no iteration runs afterwards.
C4_InterruptClosesAndExits ==
    /\ [](pc = "interrupted" => (exit_code = 0 /\ output_file # "open"))
    /\ [][pc = "interrupted" => (requests' = requests /\ run' = run
                                  /\ file_lines' = file_lines)]_vars

C4_Witness ==
    /\ pc = "interrupted"
    /\ output_file = "closed"
    /\ Len(file_lines) = 2
    /\ Cardinality(emails) = 2
    /\ exit_code = 0

\* the (value, url) pairs reported so far for a pattern
PairsFound(pattern) ==
    {<<e.match, e.url>> : e \in {x \in reported : x.pattern = pattern}}

\* C7: each set holds exactly one entry per (value, url) pair found so far,
\* whatever the number of results, pages or calls it was found in, so that
\* one value at two URLs gives two entries; and no entry is ever removed.
C7_MatchSetsKeyedByPair ==
    /\ [](/\ Cardinality(emails) = Cardinality(PairsFound(EMAIL_PATTERN))
          /\ Cardinality(phone_numbers) = Cardinality(PairsFound(PHONE_PATTERN))
          /\ \A p \in PairsFound(EMAIL_PATTERN) : Entry(p[1], p[2]) \in emails
          /\ \A p \in PairsFound(PHONE_PATTERN) : Entry(p[1], p[2]) \in phone_numbers)
    /\ [][emails \subseteq emails' /\ phone_numbers \subseteq phone_numbers']_vars

\* the first run found the pair (test@example.com, http://example.com), the
\* second found it again together with the same value at another URL
C7_Witness ==
    /\ response = Ok(JSON_TWO_URLS)
    /\ Len(totals) = 2
    /\ totals[1].emails = 1
    /\ totals[2].emails = 2
    /\ PairsFound(EMAIL_PATTERN) = {<<EMAIL_TEST, URL_EXAMPLE>>, <<EMAIL_TEST, URL_OTHER>>}
    /\ Cardinality(emails) = 2

\* C8: the email rule is applied exactly in the modes "no" and "both" and the
\* phone rule exactly in the modes "yes" and "both": the other set stays
\* empty in the single modes, and in mode "both" one result holding one email
\* and one phone number adds one entry to each set.
C8_ModeSelectsRules ==
    LET enabled == (IF args.phones \in {"no", "both"} THEN {EMAIL_PATTERN} ELSE {})
                   \cup (IF args.phones \in {"yes", "both"} THEN {PHONE_PATTERN} ELSE {})
    IN  /\ Range(calls) \subseteq enabled
        /\ (totals # <<>> /\ pc # "crashed") => Range(calls) = enabled
        /\ \A e \in reported : e.pattern \in enabled
        /\ args.phones = "no" => phone_numbers = {}
        /\ args.phones = "yes" => emails = {}
        /\ (args.phones = "both" /\ run = 2 /\ response = Ok(JSON_BOTH)) =>
               (Cardinality(emails) = 1 /\ Cardinality(phone_numbers) = 1)

C8_Witness ==
    /\ args.phones = "both"
    /\ run = 2
    /\ response = Ok(JSON_BOTH)
    /\ calls = <<EMAIL_PATTERN, PHONE_PATTERN>>
    /\ Cardinality(emails) = 1
    /\ Cardinality(phone_numbers) = 1

\* C9: no entry of the email set has a value that contains "postmaster" or
\* "webmaster" in any letter case or that ends with a period; a snippet with
\* only postmaster@example.com adds nothing, and "john@example.com." is kept
\* as "john@example.com".
C9_EmailValuesClean ==
    /\ \A e \in emails :
        LET v == ValueOf(e)
        IN  /\ ~Contains(lower(v), POSTMASTER)
            /\ ~Contains(lower(v), WEBMASTER)
            /\ v # <<>>
            /\ v[Len(v)] # "."
    /\ (run = 2 /\ response = Ok(JSON_POSTMASTER)) => emails = {}
    /\ (run = 2 /\ response = Ok(JSON_ROLES) /\ args.phones # "yes") =>
           emails = {Entry(EMAIL_JOHN, URL_EXAMPLE)}

C9_Witness ==
    /\ run = 2
    /\ response = Ok(JSON_ROLES)
    /\ calls = <<EMAIL_PATTERN>>
    /\ emails = {EMAIL_JOHN \o <<",">> \o URL_EXAMPLE}

\* C10: nothing is written to the output file unless every one of the runs
\* has had its request answered with a success status and been processed.
C10_OutputOnlyAfterAllRuns ==
    file_lines # <<>> =>
        /\ run = args.runs + 1
        /\ Len(requests) = args.runs
        /\ Len(totals) = args.runs
        /\ ~Failed

\* a failure in the second run, after the first run had found a match
C10_Witness ==
    /\ pc = "failed"
    /\ run = 2
    /\ emails # {}
    /\ output_file = "open"
    /\ file_lines = <<>>

(***************************************************************************)
(* Properties of search_results called on its own.                         *)
(***************************************************************************)
\* a result with both keys, in a page with every level present
CompleteResults(page) ==
    IF page.content = Missing \/ page.content[1].results = Missing
       \/ page.content[1].results[1].organic = Missing
    THEN {}
    ELSE {r \in Range(OrganicOf(page)) : r.desc # Missing /\ r.url # Missing}

\* C5: search_results returns normally whatever level of the response is
\* missing, and only the results with every level present contribute.
C5_NeverFailsOnPartialShape ==
    /\ call.state # "raised"
    /\ call.state = "returned" =>
        call.unique_matches =
            UNION {search_results(call.pattern, Json(<<Page(<<r>>)>>)).unique_matches :
                      r \in UNION {CompleteResults(call.response.results[1][i]) :
                                      i \in DOMAIN call.response.results[1]}}

\* C6: within one call every (value, url) pair is reported once: there are as
\* many progress events as elements of the returned set, all different.
C6_ReportsOnlyNewMatches ==
    call.state = "returned" =>
        /\ Len(call.printed) = Cardinality(call.unique_matches)
        /\ \A i, j \in DOMAIN call.printed :
               i # j => call.printed[i] # call.printed[j]

====
